---------------------------- MODULE Spec2Model ----------------------------
(***************************************************************************)
(* Model of the Wayland client NIF bridge                                  *)
(* (native/wayland_client/src/lib.rs).                                     *)
(*                                                                         *)
(* The program state is the four process-wide tables (CONNECTIONS,         *)
(* SURFACES, REGISTRIES, NEXT_ID), the native connection objects they own  *)
(* (socket, event queue, the queue's mutex), the resources handed to the   *)
(* host (display, registry and surface resources) and, for every caller    *)
(* thread of the host runtime, its position inside the NIF it is running   *)
(* together with that NIF's local variables.  The compositor is the        *)
(* environment: it advertises and retracts globals, answers sync requests  *)
(* and may hang up.                                                        *)
(***************************************************************************)
EXTENDS Integers, Sequences, FiniteSets, TLC

(***************************************************************************)
(* Bounds of the model.                                                    *)
(***************************************************************************)
NumThreads == 2
MaxId == 2
MaxServerEvents == 1

(***************************************************************************)
(* Program constants.                                                      *)
(***************************************************************************)
FirstId == 1

Threads == 1 .. NumThreads
Names == {1, 2}
DisplayNames == {"none", "wayland-1"}

VARIABLES
    NEXT_ID,            \* the identifier counter
    CONNECTIONS,        \* connection_id -> (Connection, Mutex<EventQueue>)
    CONNECTIONS_lock,   \* holder of the CONNECTIONS mutex, 0 when free
    SURFACES,           \* surface_id -> WlSurface
    REGISTRIES,         \* registry_id -> WlRegistry proxy
    displays,           \* DisplayResource.connection_id values held by the host
    registries,         \* RegistryResource: registry_id -> its globals snapshot
    surfaces,           \* SurfaceResource.surface_id values held by the host
    allocated,          \* the values get_next_id has returned, in order
    serverEvents,       \* announce, retract and hang-up events compositors have made
    pc,                 \* per thread: position inside the NIF it runs
    local,              \* per thread: the running NIF's local variables
    ret                 \* per thread: the NifResult being returned

vars == <<NEXT_ID, CONNECTIONS, CONNECTIONS_lock, SURFACES, REGISTRIES,
          displays, registries, surfaces, allocated, serverEvents, pc, local, ret>>

host == <<displays, registries, surfaces>>

-----------------------------------------------------------------------------
(***************************************************************************)
(* Values.                                                                 *)
(***************************************************************************)
EmptyMap == << >>

GlobalInfo(interface, version) == [interface |-> interface, version |-> version]

GlobalEvent(name, interface, version) ==
    [type |-> "Global", name |-> name, interface |-> interface, version |-> version]

GlobalRemoveEvent(name) ==
    [type |-> "GlobalRemove", name |-> name, interface |-> "", version |-> 0]

DoneEvent == [type |-> "Done", name |-> 0, interface |-> "", version |-> 0]

Ok(op, arg, val) == [op |-> op, arg |-> arg, ok |-> TRUE, val |-> val]
Err(op, arg, msg) == [op |-> op, arg |-> arg, ok |-> FALSE, val |-> msg]
NoRet == [op |-> "none", arg |-> 0, ok |-> TRUE, val |-> "none"]

ConnectionFailed == "Connection failed"
ProtocolError == "Protocol error"
ConnectionNotFound == "Connection not found"
ResourceNotFound == "Resource not found"
BindGlobalNotImplemented == "bind_global not yet implemented"

(***************************************************************************)
(* HashMap insert and remove.                                              *)
(***************************************************************************)
Insert(map, key, value) ==
    [k \in DOMAIN map \cup {key} |-> IF k = key THEN value ELSE map[k]]

Remove_clears(map, key) == [k \in {} |-> map[k]]

Remove(map, key) == [k \in DOMAIN map \ {key} |-> map[k]]

-----------------------------------------------------------------------------
(***************************************************************************)
(* get_next_id: the value handed out and the counter left behind.  The     *)
(* lock on NEXT_ID is held for the whole body, which performs nothing that *)
(* can block, so the body is one atomic step of the calling action.  The   *)
(* counter is a u32; MaxId keeps it far below the value at which `+= 1`    *)
(* overflows.                                                              *)
(***************************************************************************)
get_next_id_no_increment(id) == [current |-> id, next |-> id]

get_next_id(id) == [current |-> id, next |-> id + 1]

(***************************************************************************)
(* Dispatch<WlRegistry> for AppData: the registry event handler, applied   *)
(* to the snapshot of the AppData the dispatching call was given.          *)
(***************************************************************************)
event_keeps_first(globals, ev) ==
    CASE ev.type = "Global" /\ ev.name \notin DOMAIN globals ->
            Insert(globals, ev.name, GlobalInfo(ev.interface, ev.version))
      [] ev.type = "GlobalRemove" ->
            Remove(globals, ev.name)
      [] OTHER -> globals

event(globals, ev) ==
    CASE ev.type = "Global" ->
            Insert(globals, ev.name, GlobalInfo(ev.interface, ev.version))
      [] ev.type = "GlobalRemove" ->
            Remove(globals, ev.name)
      [] OTHER -> globals

(***************************************************************************)
(* The body of list_globals: one (name, interface, version) tuple per      *)
(* entry of the snapshot, in no particular order.                          *)
(***************************************************************************)
global_list(globals) ==
    {<<n, globals[n].interface, globals[n].version>> : n \in DOMAIN globals}

(***************************************************************************)
(* The compositor.  When a registry is bound it announces every global it  *)
(* currently advertises, in name order.                                    *)
(***************************************************************************)
RECURSIVE Burst(_, _)
Burst(srv, names) ==
    IF names = {} THEN << >>
    ELSE LET n == CHOOSE x \in names : \A y \in names : x <= y
         IN  <<GlobalEvent(n, srv[n].interface, srv[n].version)>>
                 \o Burst(srv, names \ {n})

(***************************************************************************)
(* What the compositor advertises when a client connects, and what it may  *)
(* announce later: a global under a new name, or a name it advertises      *)
(* already with another interface and version.                             *)
(***************************************************************************)

ServerStart ==
    { [n \in {1} |-> GlobalInfo("wl_compositor", 4)],
      [n \in {1, 2} |-> IF n = 1 THEN GlobalInfo("wl_compositor", 4)
                                 ELSE GlobalInfo("wl_shm", 1)] }

Announcements ==
    { [name |-> 1, info |-> GlobalInfo("wl_shm", 1)],
      [name |-> 2, info |-> GlobalInfo("wl_compositor", 4)] }

(***************************************************************************)
(* A native connection with its event queue: what CONNECTIONS stores, and  *)
(* what connect_impl holds in `connection` and `event_queue` until then.   *)
(***************************************************************************)
NewConnection(srv) ==
    [srv |-> srv,             \* what the compositor advertises now
     socket |-> << >>,        \* events sent by the compositor, not yet read
     pending |-> << >>,       \* events read into the event queue, not yet dispatched
     sync |-> FALSE,          \* a wl_display.sync request awaits its reply
     broken |-> FALSE,        \* the compositor hung up
     qlock |-> 0]             \* holder of the Mutex<EventQueue>, 0 when free

NoConn == NewConnection(EmptyMap)

NoLocal == [h |-> 0, conn |-> NoConn, app_data |-> EmptyMap, done |-> FALSE, id |-> 0]

-----------------------------------------------------------------------------
Init ==
    /\ NEXT_ID = FirstId
    /\ CONNECTIONS = EmptyMap
    /\ CONNECTIONS_lock = 0
    /\ SURFACES = EmptyMap
    /\ REGISTRIES = EmptyMap
    /\ displays = {}
    /\ registries = EmptyMap
    /\ surfaces = {}
    /\ allocated = << >>
    /\ serverEvents = 0
    /\ pc = [t \in Threads |-> "idle"]
    /\ local = [t \in Threads |-> NoLocal]
    /\ ret = [t \in Threads |-> NoRet]

(***************************************************************************)
(* Allocations still to be made by calls that are under way; starting a    *)
(* call that allocates is held back when the identifiers within MaxId are  *)
(* spoken for.                                                             *)
(***************************************************************************)
Allocating == Cardinality({t \in Threads : pc[t] \in {"cn_rt", "gr_q", "gr_id"}})
CanAllocate == NEXT_ID + Allocating <= MaxId

Finish(t, result) ==
    /\ pc' = [pc EXCEPT ![t] = "done"]
    /\ local' = [local EXCEPT ![t] = NoLocal]
    /\ ret' = [ret EXCEPT ![t] = result]

Goto(t, label, loc) ==
    /\ pc' = [pc EXCEPT ![t] = label]
    /\ local' = [local EXCEPT ![t] = loc]
    /\ UNCHANGED ret

(***************************************************************************)
(* Mutex::lock returns once no other thread holds the guard.               *)
(***************************************************************************)
LockFree_try(holder) == TRUE

LockFree(holder) == holder = 0

(***************************************************************************)
(* The connection a thread works on: its own while connect_impl runs, the  *)
(* table's entry in the calls that look one up.                            *)
(***************************************************************************)
Connecting(t) == pc[t] \in {"cn_rt", "cn_ins"}

MyConn(t) == IF Connecting(t) THEN local[t].conn ELSE CONNECTIONS[local[t].h]

UpdateConn_shared_snapshot(t, conn, loc) ==
    IF Connecting(t)
       THEN /\ local' = [u \in Threads |->
                    IF u = t THEN [loc EXCEPT !.conn = conn]
                    ELSE [local[u] EXCEPT !.app_data = loc.app_data]]
            /\ UNCHANGED CONNECTIONS
       ELSE /\ local' = [u \in Threads |->
                    IF u = t THEN loc
                    ELSE [local[u] EXCEPT !.app_data = loc.app_data]]
            /\ CONNECTIONS' = [CONNECTIONS EXCEPT ![local[t].h] = conn]

UpdateConn(t, conn, loc) ==
    IF Connecting(t)
       THEN /\ local' = [local EXCEPT ![t] = [loc EXCEPT !.conn = conn]]
            /\ UNCHANGED CONNECTIONS
       ELSE /\ local' = [local EXCEPT ![t] = loc]
            /\ CONNECTIONS' = [CONNECTIONS EXCEPT ![local[t].h] = conn]

-----------------------------------------------------------------------------
(***************************************************************************)
(* The compositor (environment).  A place is a live connection: an entry   *)
(* of CONNECTIONS or the connection a connect_impl call is setting up.     *)
(***************************************************************************)
Places == {<<"table", h>> : h \in DOMAIN CONNECTIONS}
              \cup {<<"local", t>> : t \in {u \in Threads : Connecting(u)}}

ConnAt(p) == IF p[1] = "table" THEN CONNECTIONS[p[2]] ELSE local[p[2]].conn

ServerUpdate(p, conn) ==
    /\ IF p[1] = "table"
          THEN /\ CONNECTIONS' = [CONNECTIONS EXCEPT ![p[2]] = conn]
               /\ UNCHANGED local
          ELSE /\ local' = [local EXCEPT ![p[2]].conn = conn]
               /\ UNCHANGED CONNECTIONS
    /\ UNCHANGED <<NEXT_ID, CONNECTIONS_lock, SURFACES, REGISTRIES, host,
                   allocated, pc, ret>>

server_announce(p, a) ==
    /\ ~ConnAt(p).broken
    /\ serverEvents < MaxServerEvents
    /\ serverEvents' = serverEvents + 1
    /\ ServerUpdate(p, [ConnAt(p) EXCEPT
            !.srv = Insert(@, a.name, a.info),
            !.socket = Append(@, GlobalEvent(a.name, a.info.interface,
                                             a.info.version))])

server_retract(p, name) ==
    /\ ~ConnAt(p).broken
    /\ serverEvents < MaxServerEvents
    /\ serverEvents' = serverEvents + 1
    /\ ServerUpdate(p, [ConnAt(p) EXCEPT
            !.srv = Remove(@, name),
            !.socket = Append(@, GlobalRemoveEvent(name))])

server_hangup(p) ==
    /\ ~ConnAt(p).broken
    /\ serverEvents < MaxServerEvents
    /\ serverEvents' = serverEvents + 1
    /\ ServerUpdate(p, [ConnAt(p) EXCEPT !.broken = TRUE])

server_reply(p) ==
    /\ ~ConnAt(p).broken
    /\ ConnAt(p).sync
    /\ UNCHANGED serverEvents
    /\ ServerUpdate(p, [ConnAt(p) EXCEPT !.socket = Append(@, DoneEvent),
                                         !.sync = FALSE])

-----------------------------------------------------------------------------
(***************************************************************************)
(* EventQueue::roundtrip and EventQueue::dispatch_pending, as driven by    *)
(* connect_impl, roundtrip and flush_events.  A roundtrip sends a sync     *)
(* request, then alternates between dispatching what the queue holds and   *)
(* a blocking read of the socket, until the sync reply has been read.      *)
(***************************************************************************)
IsDone(ev) == ev.type = "Done"

\* The queue hands its events to the handler oldest first.
next_event_newest(pending) == pending[Len(pending)]

next_event(pending) == Head(pending)

IsQueued(ev) == ev.type # "Done"

blocking_read(t) ==
    /\ pc[t] \in {"cn_rt", "rt_rt"}
    /\ ~MyConn(t).broken
    /\ ~local[t].done
    /\ MyConn(t).pending = << >>
    /\ MyConn(t).socket # << >>
    /\ UpdateConn(t,
            [MyConn(t) EXCEPT !.pending = SelectSeq(MyConn(t).socket, IsQueued),
                              !.socket = << >>],
            [local[t] EXCEPT !.done = SelectSeq(MyConn(t).socket, IsDone) # << >>])
    /\ UNCHANGED <<NEXT_ID, CONNECTIONS_lock, SURFACES, REGISTRIES, host,
                   allocated, serverEvents, pc, ret>>

dispatch_event(t) ==
    /\ pc[t] \in {"cn_rt", "rt_rt", "fe_dp"}
    /\ MyConn(t).pending # << >>
    /\ UpdateConn(t,
            [MyConn(t) EXCEPT !.pending = Tail(@)],
            [local[t] EXCEPT !.app_data = event(@, next_event(MyConn(t).pending))])
    /\ UNCHANGED <<NEXT_ID, CONNECTIONS_lock, SURFACES, REGISTRIES, host,
                   allocated, serverEvents, pc, ret>>

-----------------------------------------------------------------------------
(***************************************************************************)
(* connect / connect_to_display -> connect_impl.                           *)
(***************************************************************************)
connect_failed(t, display_name) ==
    /\ pc[t] = "idle"
    /\ Finish(t, Err("connect", 0, ConnectionFailed))
    /\ UNCHANGED <<NEXT_ID, CONNECTIONS, CONNECTIONS_lock, SURFACES, REGISTRIES,
                   host, allocated, serverEvents>>

connect_start_id_first(t, display_name, srv) ==
    /\ pc[t] = "idle"
    /\ CanAllocate
    /\ NEXT_ID' = get_next_id(NEXT_ID).next
    /\ allocated' = Append(allocated, get_next_id(NEXT_ID).current)
    /\ Goto(t, "cn_rt", [NoLocal EXCEPT !.conn =
            [NewConnection(srv) EXCEPT !.socket = Burst(srv, DOMAIN srv),
                                       !.sync = TRUE]])
    /\ UNCHANGED <<CONNECTIONS, CONNECTIONS_lock, SURFACES, REGISTRIES,
                   host, serverEvents>>

connect_start(t, display_name, srv) ==
    /\ pc[t] = "idle"
    /\ CanAllocate
    /\ Goto(t, "cn_rt", [NoLocal EXCEPT !.conn =
            [NewConnection(srv) EXCEPT !.socket = Burst(srv, DOMAIN srv),
                                       !.sync = TRUE]])
    /\ UNCHANGED <<NEXT_ID, CONNECTIONS, CONNECTIONS_lock, SURFACES, REGISTRIES,
                   host, allocated, serverEvents>>

connect_roundtrip_failed(t) ==
    /\ pc[t] = "cn_rt"
    /\ local[t].conn.broken
    /\ Finish(t, Err("connect", 0, ProtocolError))
    /\ UNCHANGED <<NEXT_ID, CONNECTIONS, CONNECTIONS_lock, SURFACES, REGISTRIES,
                   host, allocated, serverEvents>>

connect_alloc(t) ==
    /\ pc[t] = "cn_rt"
    /\ local[t].done
    /\ local[t].conn.pending = << >>
    /\ LET a == get_next_id(NEXT_ID) IN
        /\ NEXT_ID' = a.next
        /\ allocated' = Append(allocated, a.current)
        /\ Goto(t, "cn_ins", [local[t] EXCEPT !.id = a.current,
                                              !.app_data = EmptyMap,
                                              !.done = FALSE])
    /\ UNCHANGED <<CONNECTIONS, CONNECTIONS_lock, SURFACES, REGISTRIES, host,
                   serverEvents>>

connect_insert(t) ==
    /\ pc[t] = "cn_ins"
    /\ LockFree(CONNECTIONS_lock)
    /\ CONNECTIONS' = Insert(CONNECTIONS, local[t].id, local[t].conn)
    /\ displays' = displays \cup {local[t].id}
    /\ Finish(t, Ok("connect", 0, local[t].id))
    /\ UNCHANGED <<NEXT_ID, CONNECTIONS_lock, SURFACES, REGISTRIES, registries,
                   surfaces, allocated, serverEvents>>

-----------------------------------------------------------------------------
(***************************************************************************)
(* disconnect, is_connected, get_fd: one critical section on CONNECTIONS.  *)
(***************************************************************************)
disconnect_result_strict(connections, h) ==
    IF h \in DOMAIN connections THEN "ok" ELSE "not_found"

disconnect_result(connections, h) == "ok"

disconnect(t, h) ==
    /\ pc[t] = "idle"
    /\ LockFree(CONNECTIONS_lock)
    /\ CONNECTIONS' = Remove(CONNECTIONS, h)
    /\ Finish(t, Ok("disconnect", h, disconnect_result(CONNECTIONS, h)))
    /\ UNCHANGED <<NEXT_ID, CONNECTIONS_lock, SURFACES, REGISTRIES, host,
                   allocated, serverEvents>>

contains_key_issued(connections, h) == h \in displays

contains_key(connections, h) == h \in DOMAIN connections

is_connected(t, h) ==
    /\ pc[t] = "idle"
    /\ LockFree(CONNECTIONS_lock)
    /\ Finish(t, Ok("is_connected", h, contains_key(CONNECTIONS, h)))
    /\ UNCHANGED <<NEXT_ID, CONNECTIONS, CONNECTIONS_lock, SURFACES, REGISTRIES,
                   host, allocated, serverEvents>>

get_fd(t, h) ==
    /\ pc[t] = "idle"
    /\ LockFree(CONNECTIONS_lock)
    /\ IF h \in DOMAIN CONNECTIONS
          THEN Finish(t, Ok("get_fd", h, h))   \* the descriptor of connection h
          ELSE Finish(t, Err("get_fd", h, ConnectionNotFound))
    /\ UNCHANGED <<NEXT_ID, CONNECTIONS, CONNECTIONS_lock, SURFACES, REGISTRIES,
                   host, allocated, serverEvents>>

-----------------------------------------------------------------------------
(***************************************************************************)
(* flush_events.  The guard on CONNECTIONS is held until the function      *)
(* returns; the guard on the event queue is taken inside it.  The AppData  *)
(* handed to dispatch_pending is built in the call.                        *)
(***************************************************************************)
\* The MutexGuard of the event queue is dropped when the call returns.
release_leak(connections, h) == connections

release(connections, h) == [connections EXCEPT ![h].qlock = 0]

\* `?` on a dispatch error returns early: the guards are dropped, the table is
\* left as it is.
after_protocol_error_drop(connections, h) == Remove(connections, h)

after_protocol_error(connections, h) == release(connections, h)

flush_events_lock(t, h) ==
    /\ pc[t] = "idle"
    /\ LockFree(CONNECTIONS_lock)
    /\ IF h \in DOMAIN CONNECTIONS
          THEN /\ CONNECTIONS_lock' = t
               /\ Goto(t, "fe_q", [NoLocal EXCEPT !.h = h])
          ELSE /\ Finish(t, Ok("flush_events", h, "ok"))
               /\ UNCHANGED CONNECTIONS_lock
    /\ UNCHANGED <<NEXT_ID, CONNECTIONS, SURFACES, REGISTRIES, host, allocated,
                   serverEvents>>

flush_events_queue_drops_table_guard(t) ==
    /\ pc[t] = "fe_q"
    /\ LockFree(MyConn(t).qlock)
    /\ CONNECTIONS' = [CONNECTIONS EXCEPT ![local[t].h].qlock = t]
    /\ CONNECTIONS_lock' = 0
    /\ Goto(t, "fe_dp", [local[t] EXCEPT !.app_data = EmptyMap])
    /\ UNCHANGED <<NEXT_ID, SURFACES, REGISTRIES, host, allocated, serverEvents>>

flush_events_queue(t) ==
    /\ pc[t] = "fe_q"
    /\ LockFree(MyConn(t).qlock)
    /\ CONNECTIONS' = [CONNECTIONS EXCEPT ![local[t].h].qlock = t]
    /\ Goto(t, "fe_dp", [local[t] EXCEPT !.app_data = EmptyMap])
    /\ UNCHANGED <<NEXT_ID, CONNECTIONS_lock, SURFACES, REGISTRIES, host,
                   allocated, serverEvents>>

flush_events_done(t) ==
    /\ pc[t] = "fe_dp"
    /\ MyConn(t).pending = << >>
    /\ CONNECTIONS' = release(CONNECTIONS, local[t].h)
    /\ CONNECTIONS_lock' = 0
    /\ Finish(t, Ok("flush_events", local[t].h, "ok"))
    /\ UNCHANGED <<NEXT_ID, SURFACES, REGISTRIES, host, allocated, serverEvents>>

flush_events_error(t) ==
    /\ pc[t] = "fe_dp"
    /\ MyConn(t).broken
    /\ CONNECTIONS' = after_protocol_error(CONNECTIONS, local[t].h)
    /\ CONNECTIONS_lock' = 0
    /\ Finish(t, Err("flush_events", local[t].h, ProtocolError))
    /\ UNCHANGED <<NEXT_ID, SURFACES, REGISTRIES, host, allocated, serverEvents>>

(***************************************************************************)
(* roundtrip.                                                              *)
(***************************************************************************)
roundtrip_lock(t, h) ==
    /\ pc[t] = "idle"
    /\ LockFree(CONNECTIONS_lock)
    /\ IF h \in DOMAIN CONNECTIONS
          THEN /\ CONNECTIONS_lock' = t
               /\ Goto(t, "rt_q", [NoLocal EXCEPT !.h = h])
          ELSE /\ Finish(t, Ok("roundtrip", h, "ok"))
               /\ UNCHANGED CONNECTIONS_lock
    /\ UNCHANGED <<NEXT_ID, CONNECTIONS, SURFACES, REGISTRIES, host, allocated,
                   serverEvents>>

roundtrip_queue(t) ==
    /\ pc[t] = "rt_q"
    /\ LockFree(MyConn(t).qlock)
    /\ CONNECTIONS' = [CONNECTIONS EXCEPT ![local[t].h].qlock = t,
                                          ![local[t].h].sync = ~MyConn(t).broken]
    /\ Goto(t, "rt_rt", [local[t] EXCEPT !.app_data = EmptyMap, !.done = FALSE])
    /\ UNCHANGED <<NEXT_ID, CONNECTIONS_lock, SURFACES, REGISTRIES, host,
                   allocated, serverEvents>>

roundtrip_done(t) ==
    /\ pc[t] = "rt_rt"
    /\ local[t].done
    /\ MyConn(t).pending = << >>
    /\ CONNECTIONS' = release(CONNECTIONS, local[t].h)
    /\ CONNECTIONS_lock' = 0
    /\ Finish(t, Ok("roundtrip", local[t].h, "ok"))
    /\ UNCHANGED <<NEXT_ID, SURFACES, REGISTRIES, host, allocated, serverEvents>>

roundtrip_error(t) ==
    /\ pc[t] = "rt_rt"
    /\ MyConn(t).broken
    /\ CONNECTIONS' = after_protocol_error(CONNECTIONS, local[t].h)
    /\ CONNECTIONS_lock' = 0
    /\ Finish(t, Err("roundtrip", local[t].h, ProtocolError))
    /\ UNCHANGED <<NEXT_ID, SURFACES, REGISTRIES, host, allocated, serverEvents>>

-----------------------------------------------------------------------------
(***************************************************************************)
(* create_surface: allocates an identifier and wraps it in a               *)
(* SurfaceResource; the display argument is not looked at and SURFACES is  *)
(* not written.                                                            *)
(***************************************************************************)
create_surface(t, h) ==
    /\ pc[t] = "idle"
    /\ CanAllocate
    /\ LET a == get_next_id(NEXT_ID) IN
        /\ NEXT_ID' = a.next
        /\ allocated' = Append(allocated, a.current)
        /\ surfaces' = surfaces \cup {a.current}
        /\ Finish(t, Ok("create_surface", h, a.current))
    /\ UNCHANGED <<CONNECTIONS, CONNECTIONS_lock, SURFACES, REGISTRIES, displays,
                   registries, serverEvents>>

(***************************************************************************)
(* get_registry.  CONNECTIONS stays locked throughout; the queue is locked *)
(* for the call of handle() only; the new RegistryResource wraps a globals *)
(* map created in this call.                                               *)
(***************************************************************************)
get_registry_lock_id_first(t, h) ==
    /\ pc[t] = "idle"
    /\ LockFree(CONNECTIONS_lock)
    /\ CanAllocate
    /\ NEXT_ID' = get_next_id(NEXT_ID).next
    /\ allocated' = Append(allocated, get_next_id(NEXT_ID).current)
    /\ IF h \in DOMAIN CONNECTIONS
          THEN /\ CONNECTIONS_lock' = t
               /\ Goto(t, "gr_q", [NoLocal EXCEPT !.h = h])
          ELSE /\ Finish(t, Err("get_registry", h, ConnectionNotFound))
               /\ UNCHANGED CONNECTIONS_lock
    /\ UNCHANGED <<CONNECTIONS, SURFACES, REGISTRIES, host, serverEvents>>

get_registry_lock(t, h) ==
    /\ pc[t] = "idle"
    /\ LockFree(CONNECTIONS_lock)
    /\ IF h \in DOMAIN CONNECTIONS
          THEN /\ CanAllocate
               /\ CONNECTIONS_lock' = t
               /\ Goto(t, "gr_q", [NoLocal EXCEPT !.h = h])
          ELSE /\ Finish(t, Err("get_registry", h, ConnectionNotFound))
               /\ UNCHANGED CONNECTIONS_lock
    /\ UNCHANGED <<NEXT_ID, CONNECTIONS, SURFACES, REGISTRIES, host, allocated,
                   serverEvents>>

get_registry_bind(t) ==
    /\ pc[t] = "gr_q"
    /\ LockFree(MyConn(t).qlock)
    /\ CONNECTIONS' = [CONNECTIONS EXCEPT ![local[t].h].socket =
            IF MyConn(t).broken THEN @
            ELSE @ \o Burst(MyConn(t).srv, DOMAIN MyConn(t).srv)]
    /\ Goto(t, "gr_id", local[t])
    /\ UNCHANGED <<NEXT_ID, CONNECTIONS_lock, SURFACES, REGISTRIES, host,
                   allocated, serverEvents>>

get_registry_store(t) ==
    /\ pc[t] = "gr_id"
    /\ LET a == get_next_id(NEXT_ID) IN
        /\ NEXT_ID' = a.next
        /\ allocated' = Append(allocated, a.current)
        /\ REGISTRIES' = Insert(REGISTRIES, a.current, [conn |-> local[t].h])
        /\ registries' = Insert(registries, a.current, EmptyMap)
        /\ Finish(t, Ok("get_registry", local[t].h, a.current))
    /\ CONNECTIONS_lock' = 0
    /\ UNCHANGED <<CONNECTIONS, SURFACES, displays, surfaces, serverEvents>>

(***************************************************************************)
(* list_globals and bind_global.                                           *)
(***************************************************************************)
list_globals(t, r) ==
    /\ pc[t] = "idle"
    /\ Finish(t, Ok("list_globals", r, global_list(registries[r])))
    /\ UNCHANGED <<NEXT_ID, CONNECTIONS, CONNECTIONS_lock, SURFACES, REGISTRIES,
                   host, allocated, serverEvents>>

bind_global(t, r, id, interface, version) ==
    /\ pc[t] = "idle"
    /\ Finish(t, Err("bind_global", r, BindGlobalNotImplemented))
    /\ UNCHANGED <<NEXT_ID, CONNECTIONS, CONNECTIONS_lock, SURFACES, REGISTRIES,
                   host, allocated, serverEvents>>

(***************************************************************************)
(* The NifResult reaches the host; the thread is free for the next call.   *)
(***************************************************************************)
nif_return(t) ==
    /\ pc[t] = "done"
    /\ pc' = [pc EXCEPT ![t] = "idle"]
    /\ ret' = [ret EXCEPT ![t] = NoRet]
    /\ UNCHANGED <<NEXT_ID, CONNECTIONS, CONNECTIONS_lock, SURFACES, REGISTRIES,
                   host, allocated, serverEvents, local>>

-----------------------------------------------------------------------------
Next ==
    \/ \E p \in Places, a \in Announcements : server_announce(p, a)
    \/ \E p \in Places, n \in Names : server_retract(p, n)
    \/ \E p \in Places : server_hangup(p)
    \/ \E p \in Places : server_reply(p)
    \/ \E t \in Threads : blocking_read(t)
    \/ \E t \in Threads : dispatch_event(t)
    \/ \E t \in Threads, d \in DisplayNames : connect_failed(t, d)
    \/ \E t \in Threads, d \in DisplayNames, s \in ServerStart : connect_start(t, d, s)
    \/ \E t \in Threads : connect_roundtrip_failed(t)
    \/ \E t \in Threads : connect_alloc(t)
    \/ \E t \in Threads : connect_insert(t)
    \/ \E t \in Threads, h \in displays : disconnect(t, h)
    \/ \E t \in Threads, h \in displays : is_connected(t, h)
    \/ \E t \in Threads, h \in displays : get_fd(t, h)
    \/ \E t \in Threads, h \in displays : flush_events_lock(t, h)
    \/ \E t \in Threads : flush_events_queue(t)
    \/ \E t \in Threads : flush_events_done(t)
    \/ \E t \in Threads : flush_events_error(t)
    \/ \E t \in Threads, h \in displays : roundtrip_lock(t, h)
    \/ \E t \in Threads : roundtrip_queue(t)
    \/ \E t \in Threads : roundtrip_done(t)
    \/ \E t \in Threads : roundtrip_error(t)
    \/ \E t \in Threads, h \in displays : create_surface(t, h)
    \/ \E t \in Threads, h \in displays : get_registry_lock(t, h)
    \/ \E t \in Threads : get_registry_bind(t)
    \/ \E t \in Threads : get_registry_store(t)
    \/ \E t \in Threads, r \in DOMAIN registries : list_globals(t, r)
    \/ \E t \in Threads, r \in DOMAIN registries, a \in Announcements :
            bind_global(t, r, a.name, a.info.interface, a.info.version)
    \/ \E t \in Threads : nif_return(t)

Spec == Init /\ [][Next]_vars

(***************************************************************************)
(* The same program under a scheduler that lets every thread inside a NIF  *)
(* run, a CONNECTIONS mutex that does not starve a waiting connect_impl    *)
(* for ever, and a compositor that answers every sync request of every     *)
(* connection it has not hung up on.  Nothing is assumed about when the    *)
(* host calls a NIF, about when it picks up a result, or about what else   *)
(* the compositor does.                                                    *)
(***************************************************************************)
CallStep(t) ==
    \/ blocking_read(t)
    \/ dispatch_event(t)
    \/ connect_roundtrip_failed(t)
    \/ connect_alloc(t)
    \/ connect_insert(t)
    \/ flush_events_queue(t)
    \/ flush_events_done(t)
    \/ flush_events_error(t)
    \/ roundtrip_queue(t)
    \/ roundtrip_done(t)
    \/ roundtrip_error(t)
    \/ get_registry_bind(t)
    \/ get_registry_store(t)

AllPlaces == {<<"table", h>> : h \in FirstId .. MaxId}
                 \cup {<<"local", t>> : t \in Threads}

ServerAnswers(p) == p \in Places /\ server_reply(p)

FairSpec ==
    /\ Spec
    /\ \A t \in Threads : WF_vars(CallStep(t))
    /\ \A t \in Threads : SF_vars(connect_insert(t))
    /\ \A p \in AllPlaces : WF_vars(ServerAnswers(p))

-----------------------------------------------------------------------------
(***************************************************************************)
(* Vocabulary of the properties.                                           *)
(***************************************************************************)
\* Thread t completes, in this step, a call of op that it began in this step.
Completes(t, op) == pc[t] = "idle" /\ pc'[t] = "done" /\ ret'[t].op = op

\* Thread t holds the result of a call of op that has just returned.
Returned(t, op) == pc[t] = "done" /\ ret[t].op = op

\* A failure that tells the caller the handle names nothing.
IsNotFound(r) == ~r.ok /\ r.val \in {ResourceNotFound, ConnectionNotFound}

\* A failure that tells the caller the operation is not implemented.
IsUnimplemented(r) ==
    ~r.ok /\ r.val \in {BindGlobalNotImplemented, "create_surface not yet implemented"}

\* The connection a registry was obtained from.
RegistryConn(r) == REGISTRIES[r].conn

\* A dispatch_pending or roundtrip of thread t is in flight on the queue of h.
InFlight(t, h) == pc[t] \in {"fe_dp", "rt_rt"} /\ local[t].h = h

\* Thread u is inside roundtrip, blocked in the read of a socket that holds nothing.
WaitingForServer(u) ==
    /\ pc[u] = "rt_rt"
    /\ ~local[u].done
    /\ MyConn(u).pending = << >>
    /\ MyConn(u).socket = << >>

-----------------------------------------------------------------------------
(***************************************************************************)
(* C1.  After a successful connect to a compositor that advertises at      *)
(* least one global (and has changed nothing since), list_globals on a     *)
(* registry obtained with get_registry from that connection returns a      *)
(* non-empty sequence.                                                     *)
(* The code returns the empty sequence: the snapshot filled by the initial *)
(* roundtrip is local to connect_impl, and the registry's own snapshot is  *)
(* written by nobody.                                                      *)
(***************************************************************************)
C1_FreshRegistryNonEmpty ==
    \A t \in Threads :
        (/\ Returned(t, "list_globals")
         /\ RegistryConn(ret[t].arg) \in DOMAIN CONNECTIONS
         /\ serverEvents = 0
         /\ DOMAIN CONNECTIONS[RegistryConn(ret[t].arg)].srv # {})
            => ret[t].val # {}

(***************************************************************************)
(* C2.  Once a roundtrip has delivered everything the compositor sent      *)
(* (nothing is left in the socket or in the queue, no call is in flight),   *)
(* list_globals on a                                                       *)
(* registry of that connection returns exactly the (name, interface,       *)
(* version) tuples the compositor advertises.                              *)
(* The code returns the empty sequence whatever the compositor advertises. *)
(***************************************************************************)
C2_ListGlobalsMatchesServer ==
    [][\A t \in Threads :
        (/\ Completes(t, "list_globals")
         /\ RegistryConn(ret'[t].arg) \in DOMAIN CONNECTIONS
         /\ LET c == CONNECTIONS[RegistryConn(ret'[t].arg)]
            IN  /\ c.socket = << >> /\ c.pending = << >>
                /\ ~c.sync /\ ~c.broken /\ c.qlock = 0)
            => ret'[t].val =
                 {<<n, CONNECTIONS[RegistryConn(ret'[t].arg)].srv[n].interface,
                       CONNECTIONS[RegistryConn(ret'[t].arg)].srv[n].version>> :
                    n \in DOMAIN CONNECTIONS[RegistryConn(ret'[t].arg)].srv}]_vars

(***************************************************************************)
(* C3.  A call that takes a display handle whose connection has been       *)
(* removed by disconnect fails with a not-found error (flush_events,       *)
(* roundtrip, get_fd, get_registry, create_surface) or answers false       *)
(* (is_connected).                                                         *)
(* In the code flush_events and roundtrip answer ok and create_surface     *)
(* returns a surface handle.                                               *)
(***************************************************************************)
C3_StaleHandleFails ==
    [][\A t \in Threads :
        \A op \in {"flush_events", "roundtrip", "get_fd", "get_registry",
                   "create_surface", "is_connected"} :
            (Completes(t, op) /\ ret'[t].arg \notin DOMAIN CONNECTIONS)
                => IF op = "is_connected"
                      THEN ret'[t].ok /\ ret'[t].val = FALSE
                      ELSE IsNotFound(ret'[t])]_vars

(***************************************************************************)
(* C4.  bind_global and create_surface always fail with an "unimplemented" *)
(* error, and no surface handle exists without a native surface in         *)
(* SURFACES.                                                               *)
(* In the code create_surface returns ok with a fresh surface handle and   *)
(* stores nothing in SURFACES.                                             *)
(***************************************************************************)
C4_StubsFailUnimplemented ==
    /\ \A t \in Threads :
          (Returned(t, "bind_global") \/ Returned(t, "create_surface"))
              => IsUnimplemented(ret[t])
    /\ surfaces \subseteq DOMAIN SURFACES

(***************************************************************************)
(* C10.  While a roundtrip on one connection waits for a compositor that   *)
(* has not replied, a caller of flush_events, is_connected or disconnect   *)
(* on another connection is not held up.                                   *)
(* In the code roundtrip keeps the guard of CONNECTIONS while it waits, so *)
(* every call that needs the table waits with it.                          *)
(***************************************************************************)
C10_OtherConnectionsProceed ==
    \A u \in Threads, t \in Threads, b \in DOMAIN CONNECTIONS :
        (/\ WaitingForServer(u)
         /\ t # u
         /\ pc[t] = "idle"
         /\ b # local[u].h)
            => /\ ENABLED flush_events_lock(t, b)
               /\ ENABLED is_connected(t, b)
               /\ ENABLED disconnect(t, b)

-----------------------------------------------------------------------------
(***************************************************************************)
(* C5.  roundtrip and flush_events on one connection are serialized: at    *)
(* most one dispatch_pending/roundtrip is in flight on an event queue;     *)
(* while it is, no step of another caller changes the connection or its    *)
(* queue, so the calls take effect one after the other; and a caller that  *)
(* finds the queue busy waits -- the only failure either call reports is a *)
(* protocol error.                                                         *)
(***************************************************************************)
C5_MutualExclusion ==
    \A h \in DOMAIN CONNECTIONS :
        /\ Cardinality({t \in Threads : InFlight(t, h)}) <= 1
        /\ \A t \in Threads : InFlight(t, h) => CONNECTIONS[h].qlock = t

C5_NotRejected ==
    \A t \in Threads :
        ((Returned(t, "flush_events") \/ Returned(t, "roundtrip")) /\ ~ret[t].ok)
            => ret[t].val = ProtocolError

C5_NotInterleaved ==
    \A t \in Threads, h \in DOMAIN CONNECTIONS :
        InFlight(t, h) =>
            /\ h \in DOMAIN CONNECTIONS'
            /\ \A u \in Threads \ {t} :
                  (pc'[u] # pc[u] \/ local'[u] # local[u])
                      => CONNECTIONS'[h] = CONNECTIONS[h]

C5_Serialized ==
    /\ [](C5_MutualExclusion /\ C5_NotRejected)
    /\ [][C5_NotInterleaved]_vars

\* A roundtrip is in flight on h and a second caller of flush_events on h has to wait.
C5_Witness ==
    \E t \in Threads, u \in Threads, h \in DOMAIN CONNECTIONS :
        /\ t # u
        /\ InFlight(t, h) /\ pc[t] = "rt_rt"
        /\ pc[u] = "idle"
        /\ ~ENABLED flush_events_lock(u, h)

(***************************************************************************)
(* C6.  The identifiers get_next_id hands out are strictly increasing in   *)
(* allocation order, hence pairwise distinct, whichever of connect,        *)
(* get_registry and create_surface asks and however the callers            *)
(* interleave; every handle in use stands for one allocation of its own.   *)
(***************************************************************************)
C6_UniqueIncreasingIds ==
    /\ \A i \in DOMAIN allocated, j \in DOMAIN allocated :
          i < j => allocated[i] < allocated[j]
    /\ displays \cap surfaces = {}
    /\ displays \cap DOMAIN registries = {}
    /\ surfaces \cap DOMAIN registries = {}
    /\ \A t \in Threads :
          pc[t] = "cn_ins" =>
              local[t].id \notin displays \cup surfaces \cup DOMAIN registries
    /\ \A t \in Threads, u \in Threads :
          (t # u /\ pc[t] = "cn_ins" /\ pc[u] = "cn_ins") => local[t].id # local[u].id
    /\ Cardinality(displays) + Cardinality(surfaces) + Cardinality(DOMAIN registries)
          + Cardinality({t \in Threads : pc[t] = "cn_ins"}) = Len(allocated)

\* Another caller allocated between a connect's allocation and its insert.
C6_Witness ==
    \E t \in Threads :
        /\ pc[t] = "cn_ins"
        /\ Len(allocated) = 2
        /\ local[t].id = allocated[1]

(***************************************************************************)
(* C7.  disconnect succeeds whenever it is called, leaves the handle       *)
(* absent from CONNECTIONS, and changes nothing when the handle is already *)
(* absent.                                                                 *)
(***************************************************************************)
C7_DisconnectIdempotent ==
    [][\A t \in Threads :
        Completes(t, "disconnect") =>
            /\ ret'[t].ok /\ ret'[t].val = "ok"
            /\ ret'[t].arg \notin DOMAIN CONNECTIONS'
            /\ ret'[t].arg \notin DOMAIN CONNECTIONS =>
                  UNCHANGED <<NEXT_ID, CONNECTIONS, CONNECTIONS_lock, SURFACES,
                              REGISTRIES, host, allocated, serverEvents>>]_vars

\* Two calls of disconnect on the same handle have returned.
C7_Witness ==
    \E t \in Threads, u \in Threads :
        /\ t # u
        /\ Returned(t, "disconnect") /\ Returned(u, "disconnect")
        /\ ret[t].arg = ret[u].arg
        /\ ret[t].ok /\ ret[u].ok

(***************************************************************************)
(* C8.  The registry event handler: dispatching "global announced" for a   *)
(* name sets that name's entry to the announced (interface, version),      *)
(* whether or not the name was present, and leaves every other entry;      *)
(* dispatching "global retracted" removes the name's entry, leaves every   *)
(* other entry, and changes nothing when the name was absent.              *)
(***************************************************************************)
Dispatches(t) ==
    /\ pc[t] \in {"cn_rt", "rt_rt", "fe_dp"}
    /\ pc'[t] = pc[t]
    /\ MyConn(t).pending # << >>
    /\ MyConn(t)'.pending = Tail(MyConn(t).pending)

C8_HandlerEffect ==
    [][\A t \in Threads :
        Dispatches(t) =>
            LET ev == Head(MyConn(t).pending)
                before == local[t].app_data
                after == local'[t].app_data
            IN  /\ ev.type = "Global" =>
                      /\ DOMAIN after = DOMAIN before \cup {ev.name}
                      /\ after[ev.name] = [interface |-> ev.interface,
                                           version |-> ev.version]
                /\ ev.type = "GlobalRemove" =>
                      /\ DOMAIN after = DOMAIN before \ {ev.name}
                      /\ ev.name \notin DOMAIN before => after = before
                /\ \A n \in DOMAIN before \ {ev.name} :
                      n \in DOMAIN after /\ after[n] = before[n]]_vars

\* Name 1 was announced and then retracted within one roundtrip: the snapshot
\* that received both holds name 2 only.
C8_Witness ==
    \E t \in Threads :
        /\ pc[t] = "cn_rt"
        /\ local[t].done
        /\ local[t].conn.pending = << >>
        /\ DOMAIN local[t].conn.srv = {2}
        /\ DOMAIN local[t].app_data = {2}

(***************************************************************************)
(* C9.  is_connected never fails and answers true exactly when the handle  *)
(* is a key of CONNECTIONS; a key enters CONNECTIONS only as a connect     *)
(* returns it and leaves only in a disconnect of it.                       *)
(***************************************************************************)
C9_IsConnectedIffPresent ==
    [][/\ \A t \in Threads :
            Completes(t, "is_connected") =>
                /\ ret'[t].ok
                /\ ret'[t].val = (ret'[t].arg \in DOMAIN CONNECTIONS)
                /\ UNCHANGED CONNECTIONS
       /\ \A h \in DOMAIN CONNECTIONS' \ DOMAIN CONNECTIONS :
            \E t \in Threads :
                pc[t] = "cn_ins" /\ pc'[t] = "done" /\ ret'[t] = Ok("connect", 0, h)
       /\ \A h \in DOMAIN CONNECTIONS \ DOMAIN CONNECTIONS' :
            \E t \in Threads :
                Completes(t, "disconnect") /\ ret'[t].arg = h]_vars

\* is_connected has answered false for a handle that connect returned.
C9_Witness ==
    \E t \in Threads :
        /\ Returned(t, "is_connected")
        /\ ret[t].arg \in displays
        /\ ret[t].val = FALSE

-----------------------------------------------------------------------------
(***************************************************************************)
(* C11.  A flush_events or roundtrip that fails does so with the protocol  *)
(* error, and leaves the connection in CONNECTIONS: the set of keys is the *)
(* one before the failure, every other entry is untouched, the entry of    *)
(* the handle differs at most in that its queue's guard is free again, and *)
(* is_connected on the handle answers true.                                *)
(***************************************************************************)
DispatchFails(t) ==
    /\ pc[t] \in {"fe_dp", "rt_rt"}
    /\ pc'[t] = "done"
    /\ ~ret'[t].ok

C11_ErrorKeepsConnection ==
    [][\A t \in Threads :
        DispatchFails(t) =>
            /\ ret'[t].op \in {"flush_events", "roundtrip"}
            /\ ret'[t].val = ProtocolError
            /\ ret'[t].arg = local[t].h
            /\ DOMAIN CONNECTIONS' = DOMAIN CONNECTIONS
            /\ contains_key(CONNECTIONS', local[t].h)
            /\ \A h \in DOMAIN CONNECTIONS :
                 CONNECTIONS'[h] = [CONNECTIONS[h] EXCEPT
                                       !.qlock = IF h = local[t].h THEN 0 ELSE @]
            /\ UNCHANGED <<NEXT_ID, SURFACES, REGISTRIES, host, allocated>>]_vars

\* A roundtrip has returned the protocol error and a later is_connected on
\* the same handle has answered true.
C11_Witness ==
    \E t, u \in Threads :
        /\ Returned(t, "roundtrip")
        /\ ret[t] = Err("roundtrip", ret[t].arg, ProtocolError)
        /\ Returned(u, "is_connected")
        /\ ret[u] = Ok("is_connected", ret[t].arg, TRUE)
        /\ CONNECTIONS[ret[t].arg].broken

-----------------------------------------------------------------------------
(***************************************************************************)
(* C12.  The events of a queue reach the snapshot in the order the         *)
(* compositor sent them.  During the roundtrip of connect_impl, whose      *)
(* snapshot has seen every event of the connection, applying what is still *)
(* queued and what is still in the socket, oldest first, to the snapshot   *)
(* gives exactly what the compositor advertises: a later announce of a     *)
(* name has replaced the earlier one, a retracted name is gone.  So when   *)
(* the dispatch has drained both, the snapshot is the compositor's set.    *)
(***************************************************************************)
RECURSIVE ApplyInOrder(_, _)
ApplyInOrder(globals, events) ==
    IF events = << >> THEN globals
    ELSE LET ev == Head(events)
             applied ==
                 IF ev.type = "Global"
                    THEN [n \in DOMAIN globals \cup {ev.name} |->
                            IF n = ev.name
                               THEN [interface |-> ev.interface, version |-> ev.version]
                               ELSE globals[n]]
                 ELSE IF ev.type = "GlobalRemove"
                    THEN [n \in DOMAIN globals \ {ev.name} |-> globals[n]]
                 ELSE globals
         IN  ApplyInOrder(applied, Tail(events))

SameGlobals(a, b) == DOMAIN a = DOMAIN b /\ \A n \in DOMAIN a : a[n] = b[n]

-----------------------------------------------------------------------------
(***************************************************************************)
(* C13.  The registry event handler is the only writer of a snapshot and   *)
(* runs only inside a dispatch on the queue of the snapshot's call.  The   *)
(* snapshot of a registry resource is never written once it exists; the    *)
(* snapshot of a call changes only as that call dispatches an event, or as *)
(* the call begins or ends.  list_globals, get_registry, is_connected,     *)
(* get_fd and disconnect leave every existing snapshot as it is, and       *)
(* list_globals returns the tuples of the registry's snapshot as it is at  *)
(* the moment of the call.                                                 *)
(***************************************************************************)
SnapshotReaders == {"list_globals", "get_registry", "is_connected", "get_fd",
                    "disconnect"}

Returns(t) == pc[t] # "done" /\ pc'[t] = "done"

C13_HandlerOnlyWriter ==
    [][/\ \A r \in DOMAIN registries :
            r \in DOMAIN registries' /\ registries'[r] = registries[r]
       /\ \A u \in Threads :
            local'[u].app_data # local[u].app_data =>
                \/ Dispatches(u)
                \/ (pc'[u] # pc[u] /\ local'[u].app_data = EmptyMap)
       /\ \A t \in Threads :
            (Returns(t) /\ ret'[t].op \in SnapshotReaders) =>
                /\ \A u \in Threads : local'[u].app_data = local[u].app_data
                /\ ret'[t].op = "list_globals" =>
                     ret'[t].val =
                        {<<n, registries[ret'[t].arg][n].interface,
                              registries[ret'[t].arg][n].version>> :
                            n \in DOMAIN registries[ret'[t].arg]}]_vars

\* list_globals has returned while a roundtrip on the registry's connection
\* is in flight with a snapshot the handler has written to.
C13_Witness ==
    \E t, u \in Threads :
        /\ Returned(t, "list_globals")
        /\ ret[t].ok
        /\ pc[u] = "rt_rt"
        /\ local[u].h = RegistryConn(ret[t].arg)
        /\ DOMAIN local[u].app_data # {}

-----------------------------------------------------------------------------
(***************************************************************************)
(* C14.  A connect that fails, because the compositor cannot be reached or *)
(* because the initial roundtrip fails, issues no handle and changes no    *)
(* state: none of its steps, from the call to the failing return, changes  *)
(* the identifier counter, CONNECTIONS, the other tables or what the host  *)
(* holds.  The next allocation therefore gets the identifier the failed    *)
(* connect would have received.                                            *)
(***************************************************************************)
ConnectStepBeforeAlloc(t) ==
    /\ pc[t] \in {"idle", "cn_rt"}
    /\ \/ pc'[t] = "cn_rt"
       \/ pc'[t] = "done" /\ ret'[t].op = "connect" /\ ~ret'[t].ok
    /\ pc'[t] # pc[t] \/ local'[t] # local[t]

C14_FailedConnectChangesNothing ==
    [][\A t \in Threads :
        /\ ConnectStepBeforeAlloc(t) =>
              UNCHANGED <<NEXT_ID, CONNECTIONS, CONNECTIONS_lock, SURFACES,
                          REGISTRIES, host, allocated>>
        /\ (pc'[t] = "done" /\ pc[t] # "done" /\ ret'[t].op = "connect"
                /\ ~ret'[t].ok) =>
              /\ ret'[t].val \in {ConnectionFailed, ProtocolError}
              /\ pc[t] \in {"idle", "cn_rt"}]_vars

\* A connect has failed in its initial roundtrip, and nothing was ever
\* allocated or stored.
C14_Witness ==
    \E t \in Threads :
        /\ Returned(t, "connect")
        /\ ret[t] = Err("connect", 0, ProtocolError)
        /\ NEXT_ID = FirstId
        /\ allocated = << >>
        /\ DOMAIN CONNECTIONS = {}
        /\ displays = {}

-----------------------------------------------------------------------------
(***************************************************************************)
(* C15.  A connection is never removed from CONNECTIONS while a            *)
(* flush_events or roundtrip on its queue is in flight: from the lookup of *)
(* the handle to the return of the call the handle stays a key and the     *)
(* caller holds the guard of CONNECTIONS, and a disconnect of that handle  *)
(* completes only in a state in which no such call is under way, that is,  *)
(* after the dispatch has returned.                                        *)
(***************************************************************************)
UsesQueue(t, h) ==
    pc[t] \in {"fe_q", "fe_dp", "rt_q", "rt_rt"} /\ local[t].h = h

C15_GuardHeldWhileInFlight ==
    \A t \in Threads :
        pc[t] \in {"fe_q", "fe_dp", "rt_q", "rt_rt"} =>
            /\ local[t].h \in DOMAIN CONNECTIONS
            /\ CONNECTIONS_lock = t

C15_DisconnectAfterDispatch ==
    \A t \in Threads :
        Completes(t, "disconnect") =>
            /\ \A u \in Threads : ~UsesQueue(u, ret'[t].arg)
            /\ \A u \in Threads, h \in DOMAIN CONNECTIONS :
                  UsesQueue(u, h) => h \in DOMAIN CONNECTIONS'

C15_NoRemovalInFlight ==
    /\ []C15_GuardHeldWhileInFlight
    /\ [][C15_DisconnectAfterDispatch]_vars

\* A flush_events is dispatching on h while another thread's disconnect of h
\* has to wait.
C15_Witness ==
    \E t \in Threads, u \in Threads, h \in DOMAIN CONNECTIONS :
        /\ t # u
        /\ InFlight(t, h) /\ pc[t] = "fe_dp"
        /\ CONNECTIONS[h].pending # << >>
        /\ pc[u] = "idle"
        /\ ~ENABLED disconnect(u, h)

-----------------------------------------------------------------------------
(***************************************************************************)
(* C16.  The guards are taken in one order (CONNECTIONS before the queue   *)
(* of a connection, nothing held while waiting for CONNECTIONS), so no     *)
(* interleaving of the calls deadlocks.  In every state a thread inside a  *)
(* call can take a step, or waits for a sync reply the compositor still    *)
(* owes, or waits for CONNECTIONS while the thread holding it is not       *)
(* itself waiting for a guard.  And if the compositor answers every        *)
(* roundtrip, every call that has begun returns.                           *)
(***************************************************************************)
InCall(t) == pc[t] \notin {"idle", "done"}

AwaitsReply(t) ==
    /\ pc[t] \in {"cn_rt", "rt_rt"}
    /\ MyConn(t).sync
    /\ ~MyConn(t).broken

AwaitsGuard(t) == InCall(t) /\ ~ENABLED CallStep(t) /\ ~AwaitsReply(t)

C16_NoDeadlock ==
    \A t \in Threads :
        AwaitsGuard(t) =>
            /\ pc[t] = "cn_ins"
            /\ CONNECTIONS_lock \in Threads \ {t}
            /\ ~AwaitsGuard(CONNECTIONS_lock)

-----------------------------------------------------------------------------
(***************************************************************************)
(* C17.  disconnect(h) removes exactly the entry of CONNECTIONS keyed by h *)
(* and nothing else: every other connection keeps its entry as it was,     *)
(* every entry of REGISTRIES stays (a registry obtained from h included),  *)
(* every snapshot, the identifier counter and SURFACES are unchanged.      *)
(***************************************************************************)
C17_DisconnectRemovesOnlyItsEntry ==
    [][\A t \in Threads :
        Completes(t, "disconnect") =>
            /\ DOMAIN CONNECTIONS' = DOMAIN CONNECTIONS \ {ret'[t].arg}
            /\ \A h \in DOMAIN CONNECTIONS' : CONNECTIONS'[h] = CONNECTIONS[h]
            /\ REGISTRIES' = REGISTRIES
            /\ registries' = registries
            /\ \A u \in Threads \ {t} : local'[u] = local[u]
            /\ NEXT_ID' = NEXT_ID
            /\ allocated' = allocated
            /\ SURFACES' = SURFACES
            /\ UNCHANGED <<displays, surfaces, CONNECTIONS_lock>>]_vars

\* disconnect has removed a connection from which a registry was obtained;
\* the registry is still listed and still has its snapshot.
C17_Witness ==
    \E t \in Threads, r \in DOMAIN REGISTRIES :
        /\ Returned(t, "disconnect")
        /\ RegistryConn(r) = ret[t].arg
        /\ ret[t].arg \in displays
        /\ ret[t].arg \notin DOMAIN CONNECTIONS
        /\ r \in DOMAIN registries

-----------------------------------------------------------------------------
(***************************************************************************)
(* C18.  get_registry on a handle that is not a key of CONNECTIONS fails   *)
(* with the not-found error, allocates no identifier and adds no entry to  *)
(* REGISTRIES.  On a handle that is a key it fails in no way, allocates    *)
(* exactly one identifier, the counter's value at that moment, and adds    *)
(* exactly one entry to REGISTRIES, under that identifier; its steps       *)
(* before that allocate nothing and add nothing.                           *)
(***************************************************************************)
GetRegistryReturns(t) ==
    pc[t] \in {"idle", "gr_id"} /\ pc'[t] = "done" /\ ret'[t].op = "get_registry"

C18_GetRegistryAllocation ==
    [][\A t \in Threads :
        /\ (GetRegistryReturns(t) /\ ~ret'[t].ok) =>
              /\ pc[t] = "idle"
              /\ ret'[t].val = ConnectionNotFound
              /\ ret'[t].arg \notin DOMAIN CONNECTIONS
              /\ UNCHANGED <<NEXT_ID, allocated, REGISTRIES, host, CONNECTIONS>>
        /\ (GetRegistryReturns(t) /\ ret'[t].ok) =>
              /\ pc[t] = "gr_id"
              /\ ret'[t].arg \in DOMAIN CONNECTIONS
              /\ ret'[t].val = NEXT_ID
              /\ NEXT_ID' = NEXT_ID + 1
              /\ allocated' = Append(allocated, ret'[t].val)
              /\ ret'[t].val \notin DOMAIN REGISTRIES
              /\ DOMAIN REGISTRIES' = DOMAIN REGISTRIES \cup {ret'[t].val}
              /\ \A r \in DOMAIN REGISTRIES : REGISTRIES'[r] = REGISTRIES[r]
              /\ REGISTRIES'[ret'[t].val].conn = ret'[t].arg
        /\ (pc'[t] # pc[t] /\ pc'[t] \in {"gr_q", "gr_id"}) =>
              UNCHANGED <<NEXT_ID, allocated, REGISTRIES, host>>]_vars

\* get_registry has failed on a disconnected handle: the connect is the only
\* allocation there ever was and REGISTRIES is empty.
C18_Witness ==
    \E t \in Threads :
        /\ Returned(t, "get_registry")
        /\ ret[t] = Err("get_registry", ret[t].arg, ConnectionNotFound)
        /\ ret[t].arg \in displays
        /\ allocated = <<ret[t].arg>>
        /\ NEXT_ID = ret[t].arg + 1
        /\ DOMAIN REGISTRIES = {}

=============================================================================
